---- MODULE Spec2Model ----
(***************************************************************************)
(* TextClassifier of TechParser/classifier.py: the staged add/remove of    *)
(* samples, apply_changes, and the scoring functions, over exact rational  *)
(* arithmetic.  A Counter is a function whose DOMAIN is its key set.       *)
(***************************************************************************)
EXTENDS Integers, Sequences, FiniteSets, TLC

\* ------------------------------------------------------------------ bounds
\* add_sample / remove_sample calls (with a known category) in one behaviour
MaxCalls == 4
\* calls of the functions of db_functions in one behaviour
MaxDbCalls == 2

\* ------------------------------------------------------------------ inputs
Categories == {"interesting", "boring"}
UnknownCategory == "unknown"
Features == {"rocket", "launch", "delay"}

S1 == [rocket |-> 2, launch |-> 1]
S2 == [launch |-> 1, delay |-> 1]
S3 == [launch |-> 1]
EmptyCounter == <<>>

\* FeatureCounts given to add_sample / remove_sample
Samples == {S1, S2}
\* FeatureCounts given to classify_features
Queries == {S1, S3, EmptyCounter}

\* --------------------------------------------------- exact rationals <<n, d>>
Abs(x) == IF x < 0 THEN -x ELSE x

RECURSIVE GCD(_, _)
GCD(a, b) == IF b = 0 THEN a ELSE GCD(b, a % b)

\* n / d for d # 0, in lowest terms with a positive denominator
Frac(n, d) ==
    LET g == GCD(Abs(n), Abs(d))
        s == IF d < 0 THEN -1 ELSE 1
    IN  <<(s * n) \div g, (s * d) \div g>>

Zero == <<0, 1>>
One == <<1, 1>>
RAdd(a, b) == Frac(a[1] * b[2] + b[1] * a[2], a[2] * b[2])
RMul(a, b) == Frac(a[1] * b[1], a[2] * b[2])
\* a / n for an integer n # 0
RDivInt(a, n) == Frac(a[1], a[2] * n)
RLeq(a, b) == a[1] * b[2] <= b[1] * a[2]

\* ------------------------------------------------------------------ Counter
\* Counter.__getitem__ / dict.get(k, 0)
GetInt(counter, k) == IF k \in DOMAIN counter THEN counter[k] ELSE 0
GetRat(counter, k) == IF k \in DOMAIN counter THEN counter[k] ELSE Zero

\* Counter._keep_positive: entries with a count <= 0 are dropped
KeepPositive(counter) ==
    [k \in {x \in DOMAIN counter : counter[x] > 0} |-> counter[k]]

\* Counter.__iadd__ :  self += other
CounterIAdd(self, other) ==
    KeepPositive([k \in DOMAIN self \cup DOMAIN other |->
                     GetInt(self, k) + GetInt(other, k)])

\* Counter.__isub__ :  self -= other
CounterISub(self, other) ==
    KeepPositive([k \in DOMAIN self \cup DOMAIN other |->
                     GetInt(self, k) - GetInt(other, k)])

\* -------------------------------------------------------------------- state
VARIABLES
    counts,                 \* self.counts: category -> Counter of rationals
    sample_counts,          \* self.sample_counts: category -> int
    counts_change,          \* self._counts_change: category -> Counter of ints
    sample_counts_change,   \* self._sample_counts_change: category -> int
    order,                  \* iteration order of the category dicts
    err,                    \* exception raised by the last call, or "none"
    last_call,              \* the last call: its name, the category named to
                            \* add_sample / remove_sample, the argument and
                            \* the returned value of classify_*
    sym,                    \* history (SpecSym): progress of an add, apply, remove, apply
                            \* sequence and the category's table before the add
    adds,                   \* history: add_sample calls per category
    removes,                \* history: remove_sample calls per category
    committed_adds,         \* history: add_sample calls committed by apply_changes
    committed_removes,      \* history: remove_sample calls committed
    occurrences,            \* history: feature occurrences over all added samples
    over_removed,           \* history: some category had more removes than adds
    history,                \* db: the articles (links) of the history table
    blacklist,              \* db: the articles (links) of the blacklist table
    variables,              \* db: the rows classifier_counts and
                            \* classifier_sample_counts of the variables table
    proc,                   \* db: per caller, the call of db_functions under way
                            \* and its local variables
    db_calls,               \* history: calls of db_functions started
    saves                   \* history: saveClassifier calls started

model_vars == <<counts, sample_counts, counts_change, sample_counts_change>>
history_vars == <<adds, removes, committed_adds, committed_removes,
                  occurrences, over_removed>>
vars == <<counts, sample_counts, counts_change, sample_counts_change, order,
          err, last_call, sym, adds, removes, committed_adds, committed_removes,
          occurrences, over_removed, history, blacklist, variables, proc,
          db_calls, saves>>
classifier_vars == <<counts, sample_counts, counts_change, sample_counts_change,
                     order, err, last_call, sym, adds, removes, committed_adds,
                     committed_removes, occurrences, over_removed>>
db_vars == <<history, blacklist, variables, proc, db_calls, saves>>

Call(op) == [op |-> op]
NoSym == [phase |-> 0]

\* the TextClassifier object, with the outcome of the call in flight
Self ==
    [counts |-> counts, sample_counts |-> sample_counts,
     counts_change |-> counts_change,
     sample_counts_change |-> sample_counts_change,
     err |-> "none", applied |-> {}]

Orders == {<<"interesting", "boring">>, <<"boring", "interesting">>}

\* callers of db_functions
Procs == {1, 2}
Articles == {"a1", "a2"}

\* a row of the variables table: no row (get_var returns its default ''),
\* text that is no JSON, a JSON array, or the JSON object json.dumps wrote;
\* save names the saveClassifier call that wrote the row
Absent == [kind |-> "absent", save |-> 0]
Corrupt == [kind |-> "corrupt", save |-> 0]
JsonArray == [kind |-> "array", save |-> 0]

NoClassifier ==
    [counts |-> <<>>, sample_counts |-> <<>>, counts_change |-> <<>>,
     sample_counts_change |-> <<>>, err |-> "none", applied |-> {}]

\* classifier = TextClassifier(['interesting', 'boring'])
NewClassifier ==
    [counts |-> [c \in Categories |-> EmptyCounter],
     sample_counts |-> [c \in Categories |-> 0],
     counts_change |-> [c \in Categories |-> EmptyCounter],
     sample_counts_change |-> [c \in Categories |-> 0],
     err |-> "none", applied |-> {}]

IdleProc ==
    [pc |-> "idle", fn |-> "none", article |-> "none",
     classifier_counts |-> Absent, classifier_sample_counts |-> Absent,
     interesting_articles |-> {}, classifier |-> NoClassifier,
     before_apply |-> NoClassifier, exc |-> "none", raised |-> FALSE, save |-> 0,
     based_on |-> [classifier_counts |-> 0, classifier_sample_counts |-> 0],
     consistent_before |-> TRUE]

\* TextClassifier.__init__(categories)
InitClassifier ==
    /\ counts = [c \in Categories |-> EmptyCounter]
    /\ sample_counts = [c \in Categories |-> 0]
    /\ counts_change = [c \in Categories |-> EmptyCounter]
    /\ sample_counts_change = [c \in Categories |-> 0]
    /\ order \in Orders
    /\ err = "none"
    /\ last_call = Call("__init__")
    /\ sym = NoSym
    /\ adds = [c \in Categories |-> 0]
    /\ removes = [c \in Categories |-> 0]
    /\ committed_adds = [c \in Categories |-> 0]
    /\ committed_removes = [c \in Categories |-> 0]
    /\ occurrences = [c \in Categories |-> [f \in Features |-> 0]]
    /\ over_removed = FALSE

\* an empty database, nobody calling
InitStore ==
    /\ history = {}
    /\ blacklist = {}
    /\ variables = [classifier_counts |-> Absent, classifier_sample_counts |-> Absent]
    /\ proc = [p \in Procs |-> IdleProc]
    /\ db_calls = 0
    /\ saves = 0

Init == InitClassifier /\ InitStore

\* ---------------------------------------------------------------- methods
\* add_sample as it would be if it counted the sample at once instead of staging it
AddSampleEager(self, features, category) ==
    IF category \notin DOMAIN self.counts_change
    THEN [self EXCEPT !.err = "KeyError"]
    ELSE [self EXCEPT !.counts_change[category] = CounterIAdd(@, features),
                      !.sample_counts[category] = @ + 1,
                      !.err = "none"]

\* add_sample as it would be over dicts that create a missing key on access
AddSampleCreating(self, features, category) ==
    [self EXCEPT
       !.counts_change =
           [c \in DOMAIN self.counts_change \cup {category} |->
               IF c = category
               THEN CounterIAdd(IF c \in DOMAIN self.counts_change
                                THEN self.counts_change[c] ELSE EmptyCounter,
                                features)
               ELSE self.counts_change[c]],
       !.sample_counts_change =
           [c \in DOMAIN self.sample_counts_change \cup {category} |->
               IF c = category
               THEN (IF c \in DOMAIN self.sample_counts_change
                     THEN self.sample_counts_change[c] ELSE 0) + 1
               ELSE self.sample_counts_change[c]],
       !.err = "none"]

\* add_sample(features, category)
AddSample(self, features, category) ==
    IF category \notin DOMAIN self.counts_change
    THEN [self EXCEPT !.err = "KeyError"]
    ELSE [self EXCEPT !.counts_change[category] = CounterIAdd(@, features),
                      !.sample_counts_change[category] = @ + 1,
                      !.err = "none"]

\* remove_sample(features, category)
RemoveSample(self, features, category) ==
    IF category \notin DOMAIN self.counts_change
    THEN [self EXCEPT !.err = "KeyError"]
    ELSE [self EXCEPT !.counts_change[category] = CounterISub(@, features),
                      !.sample_counts_change[category] = @ - 1,
                      !.err = "none"]

\* new_sample_count as it would be if the old count were left out
NewSampleCountOfChange(old_count, change) == change

\* new_sample_count = old_count + self._sample_counts_change[category]
NewSampleCount(old_count, change) == old_count + change

\* the body of apply_changes' loop on one category's counter, new_sample_count # 0
ApplyCounter(counter, changes, old_count, new_sample_count) ==
    LET r == Frac(old_count, new_sample_count)
        scaled == IF r # Zero
                  THEN [k \in DOMAIN counter |-> RMul(counter[k], r)]
                  ELSE counter
    IN  [k \in DOMAIN counter \cup DOMAIN changes |->
            IF k \in DOMAIN changes
            THEN RAdd(GetRat(scaled, k), Frac(changes[k], new_sample_count))
            ELSE scaled[k]]

\* apply_changes from the i-th category of the iteration on; the division
\* old_count / new_sample_count raises ZeroDivisionError and ends the call
RECURSIVE ApplyChangesFrom(_, _, _)
ApplyChangesFrom(self, ord, i) ==
    IF i > Len(ord) THEN self
    ELSE LET category == ord[i]
             old_count == self.sample_counts[category]
             new_sample_count ==
                 NewSampleCount(old_count, self.sample_counts_change[category])
         IN  IF new_sample_count = 0
             THEN [self EXCEPT !.err = "ZeroDivisionError"]
             ELSE ApplyChangesFrom(
                    [self EXCEPT
                       !.counts[category] =
                           ApplyCounter(@, self.counts_change[category],
                                        old_count, new_sample_count),
                       !.counts_change[category] = EmptyCounter,
                       !.sample_counts[category] = new_sample_count,
                       !.sample_counts_change[category] = 0,
                       !.applied = @ \cup {category}],
                    ord, i + 1)

ApplyChanges(self, ord) == ApplyChangesFrom([self EXCEPT !.err = "none"], ord, 1)

\* the probabilities left at their initial 1.0
UniformOne(n) == One

\* value = 1.0 / len(feature_counts.keys())
Uniform(n) == Frac(1, n)

\* classify_feature(feature): the object after the call and the returned
\* probabilities, category -> probability; counter.get leaves the Counter alone
ClassifyFeature(self, feature) ==
    LET feature_counts == [c \in DOMAIN self.counts |-> GetRat(self.counts[c], feature)]
        RECURSIVE Sum(_)
        Sum(cs) == IF cs = {} THEN Zero
                   ELSE LET c == CHOOSE x \in cs : TRUE
                        IN  RAdd(feature_counts[c], Sum(cs \ {c}))
        sum_ == Sum(DOMAIN feature_counts)
        probabilities ==
            IF sum_ = Zero
            THEN [c \in DOMAIN self.counts |->
                     Uniform(Cardinality(DOMAIN feature_counts))]
            ELSE [c \in DOMAIN self.counts |->
                     RMul(feature_counts[c], Frac(sum_[2], sum_[1]))]
    IN  [self |-> self, value |-> probabilities]

\* result[k] += v done once per feature, whatever its count
AddOnce(result, probabilities, count) ==
    IF count <= 0 THEN result
    ELSE [k \in DOMAIN result \cup DOMAIN probabilities |->
             IF k \in DOMAIN probabilities
             THEN RAdd(GetRat(result, k), probabilities[k])
             ELSE result[k]]

\* result[k] += v, done count times
RECURSIVE AddTimes(_, _, _)
AddTimes(result, probabilities, count) ==
    IF count <= 0 THEN result
    ELSE AddTimes([k \in DOMAIN result \cup DOMAIN probabilities |->
                      IF k \in DOMAIN probabilities
                      THEN RAdd(GetRat(result, k), probabilities[k])
                      ELSE result[k]],
                  probabilities, count - 1)

\* length counting distinct features instead of occurrences
NextLengthDistinct(length, count) == length + 1

\* length += count
NextLength(length, count) == length + count

\* the first loop of classify_features over the items of features
RECURSIVE Accumulate(_, _, _)
Accumulate(features, todo, acc) ==
    IF todo = {} THEN acc
    ELSE LET feature == CHOOSE x \in todo : TRUE
             count == features[feature]
             one == ClassifyFeature(acc.self, feature)
         IN  Accumulate(features, todo \ {feature},
                        [self |-> one.self,
                         result |-> AddTimes(acc.result, one.value, count),
                         length |-> NextLength(acc.length, count)])

\* result as it would start with one zero per category
InitialResultPerCategory(self) == [c \in DOMAIN self.counts |-> Zero]

\* result = Counter()
InitialResult(self) == EmptyCounter

\* classify_features(features): the object after the call and the returned
\* Counter, category -> weight; result[k] /= length raises ZeroDivisionError
\* when result has a key and length is 0
ClassifyFeatures(self, features) ==
    LET acc == Accumulate(features, DOMAIN features,
                          [self |-> self, result |-> InitialResult(self),
                           length |-> 0])
    IN  IF DOMAIN acc.result # {} /\ acc.length = 0
        THEN [self |-> [acc.self EXCEPT !.err = "ZeroDivisionError"],
              value |-> [raised |-> TRUE]]
        ELSE [self |-> acc.self,
              value |-> [k \in DOMAIN acc.result |->
                            RDivInt(acc.result[k], acc.length)]]

\* ---------------------------------------------------------------- actions
Calls ==
    LET RECURSIVE Total(_)
        Total(cs) == IF cs = {} THEN 0
                     ELSE LET c == CHOOSE x \in cs : TRUE
                          IN  adds[c] + removes[c] + Total(cs \ {c})
    IN  Total(Categories)

Assign(r) ==
    /\ counts' = r.counts
    /\ sample_counts' = r.sample_counts
    /\ counts_change' = r.counts_change
    /\ sample_counts_change' = r.sample_counts_change
    /\ err' = r.err

NothingStaged(category) ==
    /\ counts_change[category] = EmptyCounter
    /\ sample_counts_change[category] = 0

add_sample(features, category) ==
    /\ category \in Categories => Calls < MaxCalls
    /\ Assign(AddSample(Self, features, category))
    /\ last_call' = [op |-> "add_sample", category |-> category]
    /\ IF category \in Categories
       THEN /\ adds' = [adds EXCEPT ![category] = @ + 1]
            /\ occurrences' = [occurrences EXCEPT ![category] =
                                 [f \in Features |-> @[f] + GetInt(features, f)]]
       ELSE UNCHANGED <<adds, occurrences>>
    /\ UNCHANGED <<order, removes, committed_adds, committed_removes, over_removed>>

remove_sample(features, category) ==
    /\ category \in Categories => Calls < MaxCalls
    /\ Assign(RemoveSample(Self, features, category))
    /\ last_call' = [op |-> "remove_sample", category |-> category]
    /\ IF category \in Categories
       THEN /\ removes' = [removes EXCEPT ![category] = @ + 1]
            /\ over_removed' = (over_removed \/ removes[category] + 1 > adds[category])
       ELSE UNCHANGED <<removes, over_removed>>
    /\ UNCHANGED <<order, adds, committed_adds, committed_removes, occurrences>>

apply_changes ==
    LET r == ApplyChanges(Self, order)
    IN  /\ Assign(r)
        /\ last_call' = Call("apply_changes")
        /\ committed_adds' = [c \in Categories |->
              IF c \in r.applied THEN adds[c] ELSE committed_adds[c]]
        /\ committed_removes' = [c \in Categories |->
              IF c \in r.applied THEN removes[c] ELSE committed_removes[c]]
        /\ UNCHANGED <<order, adds, removes, occurrences, over_removed>>

classify_feature(feature) ==
    LET r == ClassifyFeature(Self, feature)
    IN  /\ Assign(r.self)
        /\ last_call' = [op |-> "classify_feature", arg |-> feature,
                         value |-> r.value]
        /\ UNCHANGED <<order, history_vars>>

classify_features(features) ==
    LET r == ClassifyFeatures(Self, features)
    IN  /\ Assign(r.self)
        /\ last_call' = [op |-> "classify_features", arg |-> features,
                         value |-> r.value]
        /\ UNCHANGED <<order, history_vars>>

Next ==
    \/ \E features \in Samples, category \in Categories \cup {UnknownCategory} :
          add_sample(features, category) /\ UNCHANGED <<sym, db_vars>>
    \/ \E features \in Samples, category \in Categories \cup {UnknownCategory} :
          remove_sample(features, category) /\ UNCHANGED <<sym, db_vars>>
    \/ apply_changes /\ UNCHANGED <<sym, db_vars>>
    \/ \E feature \in Features : classify_feature(feature) /\ UNCHANGED <<sym, db_vars>>
    \/ \E features \in Queries : classify_features(features) /\ UNCHANGED <<sym, db_vars>>

Spec == Init /\ [][Next]_vars

\* ------------------------------------------------------------------------
\* The training calls alone, with sym following every sequence
\*   add_sample(features, category); apply_changes();
\*   remove_sample(features, category); apply_changes()
\* that starts where nothing is staged for the category.
SymOnAdd(features, category) ==
    sym' = IF category \in Categories /\ NothingStaged(category)
           THEN [phase |-> 1, features |-> features, category |-> category,
                 counts |-> counts[category],
                 sample_count |-> sample_counts[category], raised |-> FALSE]
           ELSE NoSym

SymOnRemove(features, category) ==
    sym' = IF /\ sym.phase = 2
              /\ sym.features = features
              /\ sym.category = category
           THEN [sym EXCEPT !.phase = 3]
           ELSE NoSym

SymOnApply ==
    sym' = IF sym.phase \in {1, 3}
           THEN [sym EXCEPT !.phase = @ + 1, !.raised = @ \/ err' # "none"]
           ELSE NoSym

NextSym ==
    \/ \E features \in Samples, category \in Categories \cup {UnknownCategory} :
          add_sample(features, category) /\ SymOnAdd(features, category)
             /\ UNCHANGED db_vars
    \/ \E features \in Samples, category \in Categories \cup {UnknownCategory} :
          remove_sample(features, category) /\ SymOnRemove(features, category)
             /\ UNCHANGED db_vars
    \/ apply_changes /\ SymOnApply /\ UNCHANGED db_vars

SpecSym == Init /\ [][NextSym]_vars

\* ------------------------------------------------------------------------
\* db_functions.py: the classifier kept in the variables table, and the four
\* functions that train it when an article enters or leaves a table.  Every
\* statement sent to the database is one step; the work a caller does on its
\* own objects between two statements belongs to the step of the statement
\* before it.
\* ------------------------------------------------------------------------

\* prepare_counter(article['title'] + ' ' + article['summary'])
ArticleFeatures(a) == IF a = "a1" THEN S1 ELSE S2

\* json.dumps(value): the row written by the n-th saveClassifier call.  Keys
\* are strings and numbers are written by repr, so json.loads gives the value back
JsonDumps(value, n) == [kind |-> "object", value |-> value, save |-> n]

\* json.loads(text) raises ValueError on '' and on text that is no JSON
LoadsRaises(blob) == blob.kind \in {"absent", "corrupt"}

\* json.loads(text) where it returns: the dict written, or the list []
JsonLoads(blob) == IF blob.kind = "object" THEN blob.value ELSE <<>>

\* lines 15-19 of loadClassifier: the classifier built from the two rows read
\* and the exception that ended the try block
ParseBlobs(classifier_counts, classifier_sample_counts) ==
    IF LoadsRaises(classifier_counts)
    THEN [classifier |-> NewClassifier, exc |-> "ValueError"]
    ELSE IF classifier_counts.kind = "array"
    THEN [classifier |-> NewClassifier, exc |-> "AttributeError"]
    ELSE LET loaded == [NewClassifier EXCEPT !.counts = JsonLoads(classifier_counts)]
         IN  IF LoadsRaises(classifier_sample_counts)
             THEN [classifier |-> loaded, exc |-> "ValueError"]
             ELSE [classifier |->
                       [loaded EXCEPT !.sample_counts =
                                          JsonLoads(classifier_sample_counts)],
                   exc |-> "none"]

\* for i in articles: classifier.add_article(i, category)
RECURSIVE AddArticles(_, _, _)
AddArticles(self, articles, category) ==
    IF articles = {} THEN self
    ELSE LET a == CHOOSE x \in articles : TRUE
         IN  AddArticles(AddSample(self, ArticleFeatures(a), category),
                         articles \ {a}, category)

\* lines 26-30 of loadClassifier: the corpus staged on the classifier
StageCorpus(self, interesting_articles, bl) ==
    AddArticles(AddArticles(self, interesting_articles, "interesting"), bl, "boring")

\* a fresh classifier trained on the corpus, as the rows of the tables stand
TrainedOnCorpus(interesting_articles, bl, ord) ==
    ApplyChanges(StageCorpus(NewClassifier, interesting_articles, bl), ord)

AddFns == {"add_to_interesting", "add_to_blacklist"}
RemoveFns == {"remove_from_history", "remove_from_blacklist"}

CategoryOf(fn) ==
    IF fn \in {"add_to_interesting", "remove_from_history"}
    THEN "interesting" ELSE "boring"

Rows(fn) == IF CategoryOf(fn) = "interesting" THEN history ELSE blacklist

\* the stored model counts exactly the stored articles, or there is no
\* stored model (the next loadClassifier builds it from the articles)
StoreConsistent ==
    \/ /\ variables.classifier_counts.kind = "absent"
       /\ variables.classifier_sample_counts.kind = "absent"
    \/ /\ variables.classifier_counts.kind = "object"
       /\ variables.classifier_sample_counts.kind = "object"
       /\ variables.classifier_sample_counts.value =
              [c \in Categories |-> IF c = "interesting"
                                    THEN Cardinality(history)
                                    ELSE Cardinality(blacklist)]

StartCall(p, fn, a) ==
    [IdleProc EXCEPT !.fn = fn, !.article = a, !.raised = proc[p].raised,
                     !.consistent_before = StoreConsistent]

Returned(r, exc) ==
    [r EXCEPT !.pc = "idle", !.exc = exc, !.raised = @ \/ exc # "none"]

\* loadClassifier returns the classifier to its caller
Loaded(r) ==
    IF r.fn = "loadClassifier" THEN Returned(r, "none") ELSE [r EXCEPT !.pc = "train"]

\* add_to_interesting(article) / add_to_blacklist(article) up to the INSERT;
\* a link already in the table raises IntegrityError, which is caught
AddTo(p, fn, a) ==
    /\ proc[p].pc = "idle"
    /\ db_calls < MaxDbCalls
    /\ db_calls' = db_calls + 1
    /\ IF a \in Rows(fn)
       THEN /\ proc' = [proc EXCEPT ![p] = Returned(StartCall(p, fn, a), "none")]
            /\ UNCHANGED <<history, blacklist>>
       ELSE /\ proc' = [proc EXCEPT ![p] =
                           [StartCall(p, fn, a) EXCEPT !.pc = "load_counts"]]
            /\ IF CategoryOf(fn) = "interesting"
               THEN history' = history \cup {a} /\ UNCHANGED blacklist
               ELSE blacklist' = blacklist \cup {a} /\ UNCHANGED history
    /\ UNCHANGED <<variables, saves, classifier_vars>>

add_to_interesting(p, a) == AddTo(p, "add_to_interesting", a)

add_to_blacklist(p, a) == AddTo(p, "add_to_blacklist", a)

\* remove_from_history(link) / remove_from_blacklist(link) up to the SELECT
RemoveFrom(p, fn, a) ==
    /\ proc[p].pc = "idle"
    /\ db_calls < MaxDbCalls
    /\ db_calls' = db_calls + 1
    /\ proc' = [proc EXCEPT ![p] =
                   IF a \in Rows(fn)
                   THEN [StartCall(p, fn, a) EXCEPT !.pc = "load_counts"]
                   ELSE Returned(StartCall(p, fn, a), "none")]
    /\ UNCHANGED <<history, blacklist, variables, saves, classifier_vars>>

remove_from_history(p, a) == RemoveFrom(p, "remove_from_history", a)

remove_from_blacklist(p, a) == RemoveFrom(p, "remove_from_blacklist", a)

\* loadClassifier() called on its own
loadClassifier(p) ==
    /\ proc[p].pc = "idle"
    /\ db_calls < MaxDbCalls
    /\ db_calls' = db_calls + 1
    /\ proc' = [proc EXCEPT ![p] =
                   [StartCall(p, "loadClassifier", "none") EXCEPT !.pc = "load_counts"]]
    /\ UNCHANGED <<history, blacklist, variables, saves, classifier_vars>>

\* classifier_counts = get_var('classifier_counts', '')
LoadCounts(p) ==
    /\ proc[p].pc = "load_counts"
    /\ proc' = [proc EXCEPT
                  ![p].classifier_counts = variables.classifier_counts,
                  ![p].based_on.classifier_counts = variables.classifier_counts.save,
                  ![p].pc = "load_sample_counts"]
    /\ UNCHANGED <<history, blacklist, variables, db_calls, saves, classifier_vars>>

\* classifier_sample_counts = get_var('classifier_sample_counts', ''), then
\* the try block: ValueError leads to retraining, any other exception leaves
\* loadClassifier and its caller
LoadSampleCounts(p) ==
    /\ proc[p].pc = "load_sample_counts"
    /\ LET blob == variables.classifier_sample_counts
           parsed == ParseBlobs(proc[p].classifier_counts, blob)
           r == [proc[p] EXCEPT
                   !.classifier_sample_counts = blob,
                   !.based_on.classifier_sample_counts = blob.save,
                   !.classifier = parsed.classifier]
       IN  proc' = [proc EXCEPT ![p] =
                       IF parsed.exc = "ValueError"
                       THEN [r EXCEPT !.pc = "get_interesting_articles"]
                       ELSE IF parsed.exc # "none"
                       THEN Returned(r, parsed.exc)
                       ELSE Loaded(r)]
    /\ UNCHANGED <<history, blacklist, variables, db_calls, saves, classifier_vars>>

\* interesting_articles = get_interesting_articles()
GetInterestingArticles(p) ==
    /\ proc[p].pc = "get_interesting_articles"
    /\ proc' = [proc EXCEPT ![p].interesting_articles = history,
                            ![p].pc = "get_blacklist"]
    /\ UNCHANGED <<history, blacklist, variables, db_calls, saves, classifier_vars>>

\* blacklist = get_blacklist(), then the two add_article loops and
\* classifier.apply_changes(), whose exception leaves loadClassifier and its caller
GetBlacklist(p) ==
    /\ proc[p].pc = "get_blacklist"
    /\ LET staged == StageCorpus(proc[p].classifier,
                                 proc[p].interesting_articles, blacklist)
           applied == ApplyChanges(staged, order)
           r == [proc[p] EXCEPT !.before_apply = staged, !.classifier = applied]
       IN  proc' = [proc EXCEPT ![p] =
                       IF applied.err # "none"
                       THEN Returned(r, applied.err)
                       ELSE [r EXCEPT !.pc = "retrain_save_counts"]]
    /\ UNCHANGED <<history, blacklist, variables, db_calls, saves, classifier_vars>>

\* saveClassifier: set_var('classifier_counts', json.dumps(classifier.counts))
SaveCounts(p) ==
    /\ proc[p].pc \in {"retrain_save_counts", "save_counts"}
    /\ saves' = saves + 1
    /\ variables' = [variables EXCEPT !.classifier_counts =
                        JsonDumps(proc[p].classifier.counts, saves + 1)]
    /\ proc' = [proc EXCEPT
                  ![p].save = saves + 1,
                  ![p].based_on.classifier_counts = saves + 1,
                  ![p].pc = IF proc[p].pc = "save_counts"
                            THEN "save_sample_counts"
                            ELSE "retrain_save_sample_counts"]
    /\ UNCHANGED <<history, blacklist, db_calls, classifier_vars>>

\* saveClassifier: set_var('classifier_sample_counts',
\* json.dumps(classifier.sample_counts)); after it loadClassifier returns, an
\* add_to_* function returns, a remove_from_* function goes on to its DELETE
SaveSampleCounts(p) ==
    /\ proc[p].pc \in {"retrain_save_sample_counts", "save_sample_counts"}
    /\ variables' = [variables EXCEPT !.classifier_sample_counts =
                        JsonDumps(proc[p].classifier.sample_counts, proc[p].save)]
    /\ LET r == [proc[p] EXCEPT !.based_on.classifier_sample_counts = proc[p].save]
       IN  proc' = [proc EXCEPT ![p] =
                       IF r.pc = "retrain_save_sample_counts" THEN Loaded(r)
                       ELSE IF r.fn \in AddFns THEN Returned(r, "none")
                       ELSE [r EXCEPT !.pc = "delete"]]
    /\ UNCHANGED <<history, blacklist, db_calls, saves, classifier_vars>>

\* classifier.add_article / remove_article(article, category), then
\* classifier.apply_changes(); its exception is no IntegrityError and leaves
\* the function
Train(p) ==
    /\ proc[p].pc = "train"
    /\ LET features == ArticleFeatures(proc[p].article)
           category == CategoryOf(proc[p].fn)
           staged == IF proc[p].fn \in AddFns
                     THEN AddSample(proc[p].classifier, features, category)
                     ELSE RemoveSample(proc[p].classifier, features, category)
           applied == ApplyChanges(staged, order)
           r == [proc[p] EXCEPT !.before_apply = staged, !.classifier = applied]
       IN  proc' = [proc EXCEPT ![p] =
                       IF applied.err # "none"
                       THEN Returned(r, applied.err)
                       ELSE [r EXCEPT !.pc = "save_counts"]]
    /\ UNCHANGED <<history, blacklist, variables, db_calls, saves, classifier_vars>>

\* execute_query(Q_DELETE_FROM_HISTORY / Q_DELETE_FROM_BLACKLIST, [(link,)])
Delete(p) ==
    /\ proc[p].pc = "delete"
    /\ IF CategoryOf(proc[p].fn) = "interesting"
       THEN history' = history \ {proc[p].article} /\ UNCHANGED blacklist
       ELSE blacklist' = blacklist \ {proc[p].article} /\ UNCHANGED history
    /\ proc' = [proc EXCEPT ![p] = Returned(proc[p], "none")]
    /\ UNCHANGED <<variables, db_calls, saves, classifier_vars>>

\* rows a model saved earlier may have left behind
StaleCounts == [c \in Categories |-> [launch |-> One]]
StaleSampleCounts == [c \in Categories |-> 1]
Blobs(value) == {Absent, Corrupt, JsonArray, JsonDumps(value, 0)}

\* any articles in the two tables, any two rows in the variables table
InitLoad ==
    /\ InitClassifier
    /\ history \in SUBSET Articles
    /\ blacklist \in SUBSET Articles
    /\ variables \in [classifier_counts : Blobs(StaleCounts),
                      classifier_sample_counts : Blobs(StaleSampleCounts)]
    /\ proc = [p \in Procs |-> IdleProc]
    /\ db_calls = 0
    /\ saves = 0

\* loadClassifier called by one caller at a time
NextLoad ==
    \/ loadClassifier(1)
    \/ LoadCounts(1)
    \/ LoadSampleCounts(1)
    \/ GetInterestingArticles(1)
    \/ GetBlacklist(1)
    \/ SaveCounts(1)
    \/ SaveSampleCounts(1)

SpecLoad == InitLoad /\ [][NextLoad]_vars

\* any articles in the two tables; no stored model, or the model
\* loadClassifier stores for these articles
InitCorpus ==
    /\ InitClassifier
    /\ history \in SUBSET Articles
    /\ blacklist \in SUBSET Articles
    /\ LET trained == TrainedOnCorpus(history, blacklist, order)
       IN  variables \in
             {[classifier_counts |-> Absent, classifier_sample_counts |-> Absent]}
             \cup (IF trained.err = "none"
                   THEN {[classifier_counts |-> JsonDumps(trained.counts, 0),
                          classifier_sample_counts |->
                              JsonDumps(trained.sample_counts, 0)]}
                   ELSE {})
    /\ proc = [p \in Procs |-> IdleProc]
    /\ db_calls = 0
    /\ saves = 0

Step(p) ==
    \/ \E a \in Articles : add_to_interesting(p, a)
    \/ \E a \in Articles : add_to_blacklist(p, a)
    \/ \E a \in Articles : remove_from_history(p, a)
    \/ \E a \in Articles : remove_from_blacklist(p, a)
    \/ LoadCounts(p)
    \/ LoadSampleCounts(p)
    \/ GetInterestingArticles(p)
    \/ GetBlacklist(p)
    \/ SaveCounts(p)
    \/ SaveSampleCounts(p)
    \/ Train(p)
    \/ Delete(p)

\* the four functions called one after the other by one caller
NextSeq == Step(1)

SpecSeq == InitCorpus /\ [][NextSeq]_vars

\* the four functions called by two callers (two requests of the web
\* server) whose statements interleave
NextConc == \E p \in Procs : Step(p)

SpecConc == InitCorpus /\ [][NextConc]_vars

\* ------------------------------------------------------------------------
\* Properties
\* ------------------------------------------------------------------------
RECURSIVE RSum(_, _)
RSum(f, S) == IF S = {} THEN Zero
              ELSE LET x == CHOOSE y \in S : TRUE IN RAdd(f[x], RSum(f, S \ {x}))

RECURSIVE TotalCount(_, _)
TotalCount(features, S) ==
    IF S = {} THEN 0
    ELSE LET x == CHOOSE y \in S : TRUE IN features[x] + TotalCount(features, S \ {x})

Half == <<1, 2>>

\* C1 (add/remove symmetry): when add_sample(features, category),
\* apply_changes(), remove_sample(features, category), apply_changes() have
\* run in a row, neither apply_changes raised, and sample_counts[category] and
\* every feature's frequency in counts[category] (absent = 0) are what they
\* were before the add.
AddRemoveSymmetry ==
    sym.phase = 4 =>
        /\ ~sym.raised
        /\ sample_counts[sym.category] = sym.sample_count
        /\ \A f \in Features :
              GetRat(counts[sym.category], f) = GetRat(sym.counts, f)

\* C2 (no division by zero): apply_changes completes without error, and a
\* category whose sample count is 0 after it has an empty table.
ApplyNeverDividesByZero ==
    last_call.op = "apply_changes" =>
        /\ err = "none"
        /\ \A c \in Categories : sample_counts[c] = 0 => counts[c] = EmptyCounter

\* C3 (mean preservation): from a fresh classifier, after batches of
\* add_sample for one category only, each followed by apply_changes, the
\* category's sample count is the number of samples added and the frequency
\* of every feature is its total occurrences / that number.
MeanPreservation ==
    \A c \in Categories :
        ( /\ last_call.op = "apply_changes"
          /\ adds[c] >= 1
          /\ removes[c] = 0
          /\ \A d \in Categories \ {c} : adds[d] = 0 /\ removes[d] = 0 )
        => /\ sample_counts[c] = adds[c]
           /\ \A f \in Features :
                 GetRat(counts[c], f) = Frac(occurrences[c][f], adds[c])

\* C4 (remove is the negation of add on the staged state): a
\* remove_sample(features, category) call lowers the staged delta of every
\* feature by features[feature], below zero where need be, and the staged
\* sample-count delta by one.
RemoveIsNegation ==
    [][\A features \in Samples, category \in Categories :
          remove_sample(features, category) =>
              /\ \A f \in Features :
                    GetInt(counts_change'[category], f)
                        = GetInt(counts_change[category], f) - GetInt(features, f)
              /\ sample_counts_change'[category]
                    = sample_counts_change[category] - 1]_vars

\* C5 (apply is idempotent with nothing staged): right after an
\* apply_changes call, a second apply_changes raises no error and leaves
\* counts and sample_counts of every category as the first call left them.
ApplyIdempotent ==
    last_call.op = "apply_changes" =>
        LET again == ApplyChanges(Self, order)
        IN  /\ again.err = "none"
            /\ again.counts = counts
            /\ again.sample_counts = sample_counts

\* C6 (sample_count invariant): sample_counts[category] is always the number
\* of committed add_sample calls minus the number of committed remove_sample
\* calls of the category, and an apply_changes that raises nothing sets
\* sample_counts to old + staged delta, the staged delta to 0 and the staged
\* feature deltas to empty.
SampleCountInvariant ==
    /\ [](\A c \in Categories :
            sample_counts[c] = committed_adds[c] - committed_removes[c])
    /\ [][(last_call'.op = "apply_changes" /\ err' = "none") =>
            \A c \in Categories :
                /\ sample_counts'[c] = sample_counts[c] + sample_counts_change[c]
                /\ sample_counts_change'[c] = 0
                /\ counts_change'[c] = EmptyCounter]_vars

\* an apply_changes that raised nothing has committed two adds and one
\* remove of one category
SampleCountWitness ==
    /\ last_call.op = "apply_changes"
    /\ err = "none"
    /\ \E c \in Categories :
          /\ committed_adds[c] = 2
          /\ committed_removes[c] = 1
          /\ sample_counts[c] = 1

\* C7 (two-phase stage/apply): add_sample and remove_sample leave counts and
\* sample_counts alone and touch the staged state of the named category
\* only; classify_feature and classify_features change nothing of the model;
\* only apply_changes changes counts or sample_counts.
TwoPhase ==
    [][/\ last_call'.op \in {"add_sample", "remove_sample"}
            => /\ counts' = counts
               /\ sample_counts' = sample_counts
               /\ \A d \in Categories \ {last_call'.category} :
                     /\ counts_change'[d] = counts_change[d]
                     /\ sample_counts_change'[d] = sample_counts_change[d]
       /\ last_call'.op \in {"classify_feature", "classify_features"}
            => UNCHANGED model_vars
       /\ (counts' # counts \/ sample_counts' # sample_counts)
            => last_call'.op = "apply_changes"
      ]_vars

\* add_sample has staged a sample for a category that already has a table
TwoPhaseWitness ==
    /\ last_call.op = "add_sample"
    /\ err = "none"
    /\ \E c \in Categories :
          /\ sample_counts[c] >= 1
          /\ counts[c] # EmptyCounter
          /\ sample_counts_change[c] = 1
          /\ counts_change[c] # EmptyCounter

\* C8 (the score is a distribution): when no category ever had more
\* remove_sample than add_sample calls, classify_features of FeatureCounts
\* with at least one occurrence returns one weight per category, each in
\* [0, 1], and the weights sum to 1.
ScoreIsDistribution ==
    ( /\ last_call.op = "classify_features"
      /\ ~over_removed
      /\ TotalCount(last_call.arg, DOMAIN last_call.arg) >= 1 )
    => /\ DOMAIN last_call.value = Categories
       /\ \A c \in Categories :
             RLeq(Zero, last_call.value[c]) /\ RLeq(last_call.value[c], One)
       /\ RSum(last_call.value, Categories) = One

\* classify_features({rocket: 2, launch: 1}) returned 5/6 and 1/6
ScoreIsDistributionWitness ==
    /\ last_call.op = "classify_features"
    /\ ~over_removed
    /\ last_call.arg = S1
    /\ last_call.value = [interesting |-> <<5, 6>>, boring |-> <<1, 6>>]

\* sum over the features of features[f] * classify_feature(f)[c]
RECURSIVE Votes(_, _, _)
Votes(features, S, c) ==
    IF S = {} THEN Zero
    ELSE LET f == CHOOSE y \in S : TRUE
         IN  RAdd(RMul(Frac(features[f], 1), ClassifyFeature(Self, f).value[c]),
                  Votes(features, S \ {f}, c))

\* {rocket: 2, launch: 1} trained into interesting and {launch: 1, delay: 1}
\* into boring, and applied
Trained ==
    /\ adds = [c \in Categories |-> 1]
    /\ removes = [c \in Categories |-> 0]
    /\ committed_adds = adds
    /\ occurrences["interesting"] = [f \in Features |-> GetInt(S1, f)]
    /\ occurrences["boring"] = [f \in Features |-> GetInt(S2, f)]

\* C9 (the score is the occurrence-weighted vote average): classify_features
\* of nonempty FeatureCounts returns, per category c, the sum over the
\* features of features[f] * classify_feature(f)[c], divided by the number
\* of occurrences; classify_feature(f)[c] is counts[c][f] over the sum of
\* counts[c'][f] where that sum is not 0; and on the model trained with
\* {rocket: 2, launch: 1} as interesting and {launch: 1, delay: 1} as boring,
\* {launch: 1} scores 1/2 for each category.
ScoreIsVoteAverage ==
    /\ ( /\ last_call.op = "classify_features"
         /\ TotalCount(last_call.arg, DOMAIN last_call.arg) >= 1 )
       => /\ DOMAIN last_call.value = Categories
          /\ \A c \in Categories :
                last_call.value[c]
                  = RDivInt(Votes(last_call.arg, DOMAIN last_call.arg, c),
                            TotalCount(last_call.arg, DOMAIN last_call.arg))
    /\ last_call.op = "classify_feature"
       => LET seen == [c \in Categories |-> GetRat(counts[c], last_call.arg)]
              total == RSum(seen, Categories)
          IN  total # Zero =>
                \A c \in Categories : RMul(last_call.value[c], total) = seen[c]
    /\ (Trained /\ last_call.op = "classify_features" /\ last_call.arg = S3)
       => last_call.value = [c \in Categories |-> Half]

\* {launch: 1} has been scored on the trained model of the scenario
ScoreIsVoteAverageWitness ==
    /\ Trained
    /\ last_call.op = "classify_features"
    /\ last_call.arg = S3
    /\ last_call.value = [c \in Categories |-> Half]
    /\ counts["interesting"] = [rocket |-> <<2, 1>>, launch |-> One]

\* C10 (no-evidence default): classify_feature of a feature with no entry,
\* or frequency 0, in every category's table returns 1/|categories| for
\* every category, and the call creates no entry in any table.
NoEvidenceDefault ==
    /\ []( ( /\ last_call.op = "classify_feature"
             /\ \A c \in Categories : GetRat(counts[c], last_call.arg) = Zero )
           => \A c \in Categories :
                 last_call.value[c] = <<1, Cardinality(Categories)>> )
    /\ [][last_call'.op = "classify_feature" =>
            \A c \in Categories : DOMAIN counts'[c] = DOMAIN counts[c]]_vars

\* a trained model has been asked about a feature it never saw
NoEvidenceDefaultWitness ==
    /\ last_call.op = "classify_feature"
    /\ last_call.arg = "delay"
    /\ counts["interesting"] # EmptyCounter
    /\ \A c \in Categories : "delay" \notin DOMAIN counts[c]
    /\ last_call.value = [c \in Categories |-> Half]

\* C12 (scoring empty input is guarded): classify_features of FeatureCounts
\* with no occurrence raises no error and returns an empty result.
EmptyScoreGuarded ==
    ( /\ last_call.op = "classify_features"
      /\ TotalCount(last_call.arg, DOMAIN last_call.arg) = 0 )
    => /\ err = "none"
       /\ DOMAIN last_call.value = {}

\* the empty FeatureCounts has been scored on a model with both tables filled
EmptyScoreGuardedWitness ==
    /\ last_call.op = "classify_features"
    /\ last_call.arg = EmptyCounter
    /\ last_call.value = EmptyCounter
    /\ \A c \in Categories : counts[c] # EmptyCounter

\* C13 (fixed category set): the key sets of counts, sample_counts and both
\* staged maps are the categories given at construction in every reachable
\* state, also after calls that name an unknown category.
FixedCategorySet ==
    /\ DOMAIN counts = Categories
    /\ DOMAIN sample_counts = Categories
    /\ DOMAIN counts_change = Categories
    /\ DOMAIN sample_counts_change = Categories

\* add_sample or remove_sample has been called with an unknown category on a
\* model with staged and committed samples, and raised KeyError
FixedCategorySetWitness ==
    /\ last_call.op \in {"add_sample", "remove_sample"}
    /\ last_call.category = UnknownCategory
    /\ err = "KeyError"
    /\ \E c \in Categories : sample_counts[c] >= 1
    /\ \E c \in Categories : sample_counts_change[c] # 0


\* ------------------------------------------------------------------------
\* the persisted classifier
\* ------------------------------------------------------------------------

\* a loadClassifier call that has returned or raised
LoadEnded(p) == proc[p].pc = "idle" /\ proc[p].fn = "loadClassifier"

\* one of the two rows it read was absent, no JSON, or no JSON object
ReadUnusable(p) ==
    \/ proc[p].classifier_counts.kind # "object"
    \/ proc[p].classifier_sample_counts.kind # "object"

\* the classifier is the fresh one trained on the stored articles
IsTrainedOnCorpus(classifier) ==
    LET trained == TrainedOnCorpus(history, blacklist, order)
    IN  /\ trained.err = "none"
        /\ classifier.counts = trained.counts
        /\ classifier.sample_counts = trained.sample_counts

\* the two rows hold the counts and sample counts of this classifier
IsPersisted(classifier) ==
    /\ variables.classifier_counts.kind = "object"
    /\ variables.classifier_counts.value = classifier.counts
    /\ variables.classifier_sample_counts.kind = "object"
    /\ variables.classifier_sample_counts.value = classifier.sample_counts

\* C11: when either stored row is absent, corrupted or of the wrong shape,
\* loadClassifier does not fail: it returns the fresh two-category classifier
\* trained on every history article as 'interesting' and every blacklist
\* article as 'boring' with one apply_changes, and has persisted that model
LoadFallback ==
    (LoadEnded(1) /\ ReadUnusable(1)) =>
        /\ proc[1].exc = "none"
        /\ IsTrainedOnCorpus(proc[1].classifier)
        /\ IsPersisted(proc[1].classifier)


\* the stored sample counts are the numbers of stored articles
CountsMatchTables ==
    /\ variables.classifier_sample_counts.value["interesting"] = Cardinality(history)
    /\ variables.classifier_sample_counts.value["boring"] = Cardinality(blacklist)

\* C15: after any series of sequential calls of add_to_interesting,
\* add_to_blacklist, remove_from_history and remove_from_blacklist that all
\* returned, the stored sample count of 'interesting' is the number of
\* articles in history and that of 'boring' the number in blacklist, also
\* when a call's loadClassifier retrained from tables that already held the
\* article the call had inserted
PersistedMatchesCorpus ==
    (/\ proc[1].pc = "idle"
     /\ ~proc[1].raised
     /\ variables.classifier_sample_counts.kind = "object")
        => CountsMatchTables

\* apply_changes raised in the call of p that ended last
ApplyRaised(p) == proc[p].pc = "idle" /\ proc[p].exc = "ZeroDivisionError"

\* the classifier of p is as it was when apply_changes was called
ClassifierUntouched(p) ==
    /\ proc[p].classifier.counts = proc[p].before_apply.counts
    /\ proc[p].classifier.sample_counts = proc[p].before_apply.sample_counts
    /\ proc[p].classifier.counts_change = proc[p].before_apply.counts_change
    /\ proc[p].classifier.sample_counts_change =
           proc[p].before_apply.sample_counts_change

\* C16: apply_changes is all-or-nothing: when it raises, the committed and the
\* staged state of every category are as before the call; and a function of
\* db_functions whose apply_changes raised leaves the tables and the stored
\* model consistent with each other if they were so when it was called
ApplyAllOrNothing ==
    ApplyRaised(1) =>
        /\ ClassifierUntouched(1)
        /\ proc[1].consistent_before => StoreConsistent


\* p has read both rows of the stored model
HasRead(p) == proc[p].pc \notin {"load_counts", "load_sample_counts"}

\* the two rows p read were written by one saveClassifier call
ReadOneSave(p) ==
    proc[p].classifier_counts.save = proc[p].classifier_sample_counts.save

\* the row p is about to overwrite is the one its classifier was built on:
\* nobody has saved since p loaded
SavesOnWhatItLoaded(p) ==
    /\ proc[p].pc \in {"save_counts", "retrain_save_counts"} =>
           /\ variables.classifier_counts.save = proc[p].based_on.classifier_counts
           /\ variables.classifier_sample_counts.save =
                  proc[p].based_on.classifier_sample_counts
    /\ proc[p].pc \in {"save_sample_counts", "retrain_save_sample_counts"} =>
           variables.classifier_sample_counts.save =
               proc[p].based_on.classifier_sample_counts

\* C14: the functions that train the stored classifier are serialized: from
\* a caller's load to its save nobody else writes the stored model, so no
\* save overwrites an update it has not loaded, and nobody reads the counts
\* row of one save with the sample-counts row of another
TrainersSerialized ==
    \A p \in Procs :
        /\ HasRead(p) => ReadOneSave(p)
        /\ SavesOnWhatItLoaded(p)

====
